---- MODULE Spec2Model ----
(***************************************************************************)
(* The OAuth credential lifecycle and the pending-authorization handshake  *)
(* of the Google Chat command-line assistant: agent.py (get_credentials    *)
(* and the two tools), helpers.py (the auth-event helpers) and cli.py (the *)
(* turn driver).                                                           *)
(*                                                                         *)
(* Python mappings (the session state, a token mapping, a Credentials      *)
(* object's attributes) are functions from the keys that are present; an   *)
(* attribute that is None is a key that is absent.  An optional object     *)
(* (creds, the exchanged credential) is a set of at most one element.      *)
(***************************************************************************)
EXTENDS Integers, Sequences, FiniteSets, TLC

(* ------------------------------ bounds -------------------------------- *)
MaxTime == 1
MaxCalls == 3
MaxPages == 2
TokenLifetime == 1

(* --------------------- agent.py: configuration ------------------------ *)
GOOGLE_CLIENT_ID == "client-id"
GOOGLE_CLIENT_SECRET == "client-secret"
TOKEN_CACHE_KEY == "google_chat_user_tokens"
SCOPES ==
  { "https://www.googleapis.com/auth/chat.spaces.readonly",
    "https://www.googleapis.com/auth/chat.messages.readonly" }

AuthSchemeConfigured ==
  [ type |-> "oauth2",
    flow |-> "authorizationCode",
    authorizationUrl |-> "https://accounts.google.com/o/oauth2/auth",
    tokenUrl |-> "https://oauth2.googleapis.com/token",
    scopes |-> SCOPES ]

AuthCredentialConfigured ==
  [ auth_type |-> "oauth2",
    client_id |-> GOOGLE_CLIENT_ID,
    client_secret |-> GOOGLE_CLIENT_SECRET ]

(* AuthConfig(auth_scheme=..., raw_auth_credential=...) *)
AuthConfig(scheme, credential) ==
  [ auth_scheme |-> scheme, raw_auth_credential |-> credential ]

(* ------------------------- python mappings ---------------------------- *)
EmptyMap == [k \in {} |-> 0]

(* d.get(k): the value as an optional *)
MapGet(d, k) == IF k \in DOMAIN d THEN {d[k]} ELSE {}

(* d[k] = v *)
MapSet(d, k, v) == [j \in DOMAIN d \cup {k} |-> IF j = k THEN v ELSE d[j]]

(* d.pop(k, None) *)
MapPop(d, k) == [j \in DOMAIN d \ {k} |-> d[j]]

(* truthiness of a value read from the session state: None and the empty
   mapping are falsy *)
Truthy(opt) == opt # {} /\ \A v \in opt : DOMAIN v # {}

(* ------------- google.oauth2.credentials.Credentials ------------------ *)
(* Credentials(token=, refresh_token=, token_uri=, client_id=,
   client_secret=, scopes=): no expiry is given *)
Credentials(token, refresh_token, token_uri, client_id, client_secret, scopes) ==
  LET base == [ token_uri |-> token_uri, client_id |-> client_id,
                client_secret |-> client_secret, scopes |-> scopes ]
      withTok == IF token = {} THEN base
                 ELSE MapSet(base, "token", CHOOSE v \in token : TRUE)
  IN  IF refresh_token = {} THEN withTok
      ELSE MapSet(withTok, "refresh_token", CHOOSE v \in refresh_token : TRUE)

(* creds.expired: the expiry has passed (the clock-skew margin of the
   library is taken as nothing); the clock reads whole seconds *)
Expired(c, t) ==
  /\ "expiry" \in DOMAIN c
  /\ \/ t > c["expiry"].seconds
     \/ t = c["expiry"].seconds /\ ~c["expiry"].fraction

(* creds.valid: there is a token and it has not expired *)
Valid(c, t) == "token" \in DOMAIN c /\ ~Expired(c, t)

(* creds.to_json() read back by json.loads: the attributes that are not
   None, the expiry as expiry.isoformat() + "Z", which keeps its fraction
   of a second *)
JsonKeys ==
  { "token", "refresh_token", "token_uri", "client_id", "client_secret",
    "scopes", "expiry" }

to_json(c) == [k \in DOMAIN c \cap JsonKeys |-> c[k]]

(* Credentials.from_authorized_user_info(info, scopes) raises ValueError
   when one of refresh_token, client_id, client_secret is missing *)
UserInfoKeysNeeded == {"refresh_token", "client_id", "client_secret"}

FromInfoRaises(info) == UserInfoKeysNeeded \ DOMAIN info # {}

(* ... and otherwise builds the credentials: the scopes are the ones asked
   for, the token endpoint is Google's, and a mapping saved without an
   expiry is loaded as already expired; of a saved expiry the part before
   the "." is read, the whole seconds *)
from_authorized_user_info(info, scopes, t) ==
  LET kept == [k \in DOMAIN info \cap {"token", "refresh_token", "client_id",
                                       "client_secret"} |-> info[k]]
      fixed == MapSet(MapSet(kept, "token_uri", AuthSchemeConfigured.tokenUrl),
                      "scopes", scopes)
  IN  MapSet(fixed, "expiry",
             IF "expiry" \in DOMAIN info
             THEN [seconds |-> info["expiry"].seconds, fraction |-> FALSE]
             ELSE [seconds |-> t, fraction |-> FALSE])

(* the tokens the token endpoint issues, numbered as it issues them *)
AccessToken(n) == <<"access_token", n>>

RefreshToken(n) == <<"refresh_token", n>>

(* creds.refresh(Request()) when the token endpoint answers: a new access
   token and expiry, the time of the answer plus the lifetime, which is not
   a whole second; the refresh token is replaced only when the endpoint
   issued one *)
Refreshed(c, t, n, newRefreshToken) ==
  LET c1 == MapSet(MapSet(c, "token", AccessToken(n + 1)),
                   "expiry", [seconds |-> t + TokenLifetime, fraction |-> TRUE])
  IN  IF newRefreshToken THEN MapSet(c1, "refresh_token", RefreshToken(n + 1))
      ELSE c1

(* -------------------- agent.py: get_credentials ----------------------- *)
(* What the token endpoint may answer to a refresh call. *)
RefreshOutcomes == {"fail", "ok", "ok_new_refresh_token"}

(* LoadCached without the pop of a mapping that does not parse *)
LoadCached_NoPop(st, t) ==
  LET cached == MapGet(st, TOKEN_CACHE_KEY)
      info == CHOOSE v \in cached : TRUE
      r0 == [ creds |-> {}, state |-> st, writes |-> 0, refreshCalls |-> 0,
              requested |-> {}, parseFailed |-> FALSE ]
  IN  IF ~Truthy(cached) THEN r0
      ELSE IF FromInfoRaises(info)
           THEN [r0 EXCEPT !.parseFailed = TRUE]
           ELSE [r0 EXCEPT !.creds = {from_authorized_user_info(info, SCOPES, t)}]

(* LoadCached that takes a mapping that does not parse as the credentials *)
LoadCached_Lenient(st, t) ==
  LET cached == MapGet(st, TOKEN_CACHE_KEY)
      info == CHOOSE v \in cached : TRUE
      r0 == [ creds |-> {}, state |-> st, writes |-> 0, refreshCalls |-> 0,
              requested |-> {}, parseFailed |-> FALSE ]
  IN  IF ~Truthy(cached) THEN r0
      ELSE IF FromInfoRaises(info)
           THEN [r0 EXCEPT !.creds = {info}, !.parseFailed = TRUE]
           ELSE [r0 EXCEPT !.creds = {from_authorized_user_info(info, SCOPES, t)}]

(* LoadCached that empties the session state when the mapping does not
   parse *)
LoadCached_ClearAll(st, t) ==
  LET cached == MapGet(st, TOKEN_CACHE_KEY)
      info == CHOOSE v \in cached : TRUE
      r0 == [ creds |-> {}, state |-> st, writes |-> 0, refreshCalls |-> 0,
              requested |-> {}, parseFailed |-> FALSE ]
  IN  IF ~Truthy(cached) THEN r0
      ELSE IF FromInfoRaises(info)
           THEN [r0 EXCEPT !.state = EmptyMap, !.parseFailed = TRUE]
           ELSE [r0 EXCEPT !.creds = {from_authorized_user_info(info, SCOPES, t)}]

(* The cached mapping is read and parsed; a mapping that does not parse is
   popped from the session state.  A step's result carries the credentials
   so far (creds), the session state (state) and what the call has done:
   writes of the cache key, refresh calls, request_credential arguments. *)
LoadCached(st, t) ==
  LET cached == MapGet(st, TOKEN_CACHE_KEY)
      info == CHOOSE v \in cached : TRUE
      r0 == [ creds |-> {}, state |-> st, writes |-> 0, refreshCalls |-> 0,
              requested |-> {}, parseFailed |-> FALSE ]
  IN  IF ~Truthy(cached) THEN r0
      ELSE IF FromInfoRaises(info)
           THEN [r0 EXCEPT !.state = MapPop(st, TOKEN_CACHE_KEY),
                           !.parseFailed = TRUE]
           ELSE [r0 EXCEPT !.creds = {from_authorized_user_info(info, SCOPES, t)}]

(* RefreshStep that refreshes credentials without testing creds.valid *)
RefreshStep_Always(r, t, outcome, n) ==
  LET c == CHOOSE v \in r.creds : TRUE
      c2 == Refreshed(c, t, n, outcome = "ok_new_refresh_token")
  IN  IF r.creds # {} /\ "refresh_token" \in DOMAIN c
      THEN IF outcome = "fail"
           THEN [r EXCEPT !.creds = {}, !.refreshCalls = @ + 1]
           ELSE [r EXCEPT !.creds = {c2},
                          !.state = MapSet(@, TOKEN_CACHE_KEY, to_json(c2)),
                          !.writes = @ + 1,
                          !.refreshCalls = @ + 1]
      ELSE r

(* RefreshStep that does not save the refreshed credentials *)
RefreshStep_NoSave(r, t, outcome, n) ==
  LET c == CHOOSE v \in r.creds : TRUE
      c2 == Refreshed(c, t, n, outcome = "ok_new_refresh_token")
  IN  IF r.creds # {} /\ ~Valid(c, t)
      THEN IF Expired(c, t) /\ "refresh_token" \in DOMAIN c
           THEN IF outcome = "fail"
                THEN [r EXCEPT !.creds = {}, !.refreshCalls = @ + 1]
                ELSE [r EXCEPT !.creds = {c2}, !.refreshCalls = @ + 1]
           ELSE [r EXCEPT !.creds = {}]
      ELSE r

(* RefreshStep that keeps the stale credentials when the refresh fails *)
RefreshStep_KeepStale(r, t, outcome, n) ==
  LET c == CHOOSE v \in r.creds : TRUE
      c2 == Refreshed(c, t, n, outcome = "ok_new_refresh_token")
  IN  IF r.creds # {} /\ ~Valid(c, t)
      THEN IF Expired(c, t) /\ "refresh_token" \in DOMAIN c
           THEN IF outcome = "fail"
                THEN [r EXCEPT !.refreshCalls = @ + 1]
                ELSE [r EXCEPT !.creds = {c2},
                               !.state = MapSet(@, TOKEN_CACHE_KEY, to_json(c2)),
                               !.writes = @ + 1,
                               !.refreshCalls = @ + 1]
           ELSE [r EXCEPT !.creds = {}]
      ELSE r

(* Credentials that are not valid are refreshed when they are expired and
   have a refresh token, and saved; a failed refresh, or credentials that
   cannot be refreshed, leave no credentials. *)
RefreshStep(r, t, outcome, n) ==
  LET c == CHOOSE v \in r.creds : TRUE
      c2 == Refreshed(c, t, n, outcome = "ok_new_refresh_token")
  IN  IF r.creds # {} /\ ~Valid(c, t)
      THEN IF Expired(c, t) /\ "refresh_token" \in DOMAIN c
           THEN IF outcome = "fail"
                THEN [r EXCEPT !.creds = {}, !.refreshCalls = @ + 1]
                ELSE [r EXCEPT !.creds = {c2},
                               !.state = MapSet(@, TOKEN_CACHE_KEY, to_json(c2)),
                               !.writes = @ + 1,
                               !.refreshCalls = @ + 1]
           ELSE [r EXCEPT !.creds = {}]
      ELSE r

(* ConsentStep that does not save the credentials it makes *)
ConsentStep_NoSave(r, exch, scheme, credential) ==
  LET e == CHOOSE v \in exch : TRUE
      c == Credentials(MapGet(e, "access_token"), MapGet(e, "refresh_token"),
                       scheme.tokenUrl, credential.client_id,
                       credential.client_secret, SCOPES)
  IN  IF r.creds = {} /\ exch # {} THEN [r EXCEPT !.creds = {c}] ELSE r

(* ConsentStep that leaves the refresh token out of the credentials *)
ConsentStep_DropRefresh(r, exch, scheme, credential) ==
  LET e == CHOOSE v \in exch : TRUE
      c == Credentials(MapGet(e, "access_token"), {},
                       scheme.tokenUrl, credential.client_id,
                       credential.client_secret, SCOPES)
  IN  IF r.creds = {} /\ exch # {}
      THEN [r EXCEPT !.creds = {c},
                     !.state = MapSet(@, TOKEN_CACHE_KEY, to_json(c)),
                     !.writes = @ + 1]
      ELSE r

(* Without credentials, an exchanged credential the runtime holds for this
   AuthConfig becomes the credentials, and they are saved. *)
ConsentStep(r, exch, scheme, credential) ==
  LET e == CHOOSE v \in exch : TRUE
      c == Credentials(MapGet(e, "access_token"), MapGet(e, "refresh_token"),
                       scheme.tokenUrl, credential.client_id,
                       credential.client_secret, SCOPES)
  IN  IF r.creds = {} /\ exch # {}
      THEN [r EXCEPT !.creds = {c},
                     !.state = MapSet(@, TOKEN_CACHE_KEY, to_json(c)),
                     !.writes = @ + 1]
      ELSE r

(* RequestStep that builds the AuthConfig for the request at hand: after a
   failed refresh it asks for no scopes *)
RequestStep_PerRequest(r, scheme, credential) ==
  IF r.creds = {}
  THEN [r EXCEPT !.requested =
          {AuthConfig([scheme EXCEPT !.scopes = IF r.refreshCalls > 0 THEN {}
                                                ELSE scheme.scopes],
                      credential)}]
  ELSE r

(* RequestStep that requests the credential whether or not there are
   credentials *)
RequestStep_Always(r, scheme, credential) ==
  [r EXCEPT !.requested = {AuthConfig(scheme, credential)}]

(* Still without credentials, the credential is requested and None is
   returned. *)
RequestStep(r, scheme, credential) ==
  IF r.creds = {}
  THEN [r EXCEPT !.requested = {AuthConfig(scheme, credential)}]
  ELSE r

(* The four steps in turn, each applied to the result of the one before. *)
get_credentials(st, exch, scheme, credential, t, outcome, n) ==
  CHOOSE r \in
    { RequestStep(r3, scheme, credential) :
        r3 \in { ConsentStep(r2, exch, scheme, credential) :
                   r2 \in { RefreshStep(r1, t, outcome, n) :
                              r1 \in {LoadCached(st, t)} } } } : TRUE

(* ------------------------------ helpers.py ---------------------------- *)
(* An event of the runtime's stream: content (whether event.content is
   set), parts (each with an optional text and an optional function call)
   and long_running_tool_ids. *)
Part(text, function_call) == [text |-> text, function_call |-> function_call]

Event(parts, ids) ==
  [content |-> TRUE, parts |-> parts, long_running_tool_ids |-> ids]

REQUEST_CREDENTIAL == "adk_request_credential"

(* AuthRequestParts without the test of long_running_tool_ids *)
AuthRequestParts_AnyId(event) ==
  { i \in 1..Len(event.parts) :
      \E fc \in event.parts[i].function_call : fc.name = REQUEST_CREDENTIAL }

(* AuthRequestParts that looks for a call of another name *)
AuthRequestParts_OtherName(event) ==
  { i \in 1..Len(event.parts) :
      \E fc \in event.parts[i].function_call :
        /\ fc.name = "request_credential"
        /\ event.long_running_tool_ids # {}
        /\ fc.id \in event.long_running_tool_ids }

(* the parts the loop of get_auth_request_function_call accepts *)
AuthRequestParts(event) ==
  { i \in 1..Len(event.parts) :
      \E fc \in event.parts[i].function_call :
        /\ fc.name = REQUEST_CREDENTIAL
        /\ event.long_running_tool_ids # {}
        /\ fc.id \in event.long_running_tool_ids }

get_auth_request_function_call(event) ==
  IF ~event.content \/ event.parts = <<>> THEN {}
  ELSE IF AuthRequestParts(event) = {} THEN {}
  ELSE LET first == CHOOSE i \in AuthRequestParts(event) :
                      \A j \in AuthRequestParts(event) : i <= j
       IN  event.parts[first].function_call

(* The authConfig argument of the function call is [type, fields]: a dict,
   an AuthConfig instance or a value of another type, with the fields it
   holds.  model_validate accepts a dict that has the required auth_scheme. *)
ArgFalsy(data) == data.type # "AuthConfig" /\ DOMAIN data.fields = {}

ModelValidateRaises(data) == "auth_scheme" \notin DOMAIN data.fields

(* get_auth_config without the isinstance test of line 38 *)
get_auth_config_NoTypeTest(fc) ==
  LET data == CHOOSE d \in MapGet(CHOOSE a \in fc.args : TRUE, "authConfig") : TRUE
      failed == [raised |-> TRUE, config |-> EmptyMap]
  IN  IF fc.args = {} \/ \A a \in fc.args : DOMAIN a = {} THEN failed
      ELSE IF MapGet(CHOOSE a \in fc.args : TRUE, "authConfig") = {} THEN failed
      ELSE IF ArgFalsy(data) THEN failed
      ELSE IF data.type = "dict"
           THEN IF ModelValidateRaises(data) THEN failed
                ELSE [raised |-> FALSE, config |-> data.fields]
           ELSE [raised |-> FALSE, config |-> data.fields]

(* get_auth_config: the AuthConfig, or raised *)
get_auth_config(fc) ==
  LET data == CHOOSE d \in MapGet(CHOOSE a \in fc.args : TRUE, "authConfig") : TRUE
      failed == [raised |-> TRUE, config |-> EmptyMap]
  IN  IF fc.args = {} \/ \A a \in fc.args : DOMAIN a = {} THEN failed
      ELSE IF MapGet(CHOOSE a \in fc.args : TRUE, "authConfig") = {} THEN failed
      ELSE IF ArgFalsy(data) THEN failed
      ELSE IF data.type = "dict"
           THEN IF ModelValidateRaises(data) THEN failed
                ELSE [raised |-> FALSE, config |-> data.fields]
           ELSE IF data.type # "AuthConfig" THEN failed
                ELSE [raised |-> FALSE, config |-> data.fields]

(* ------------------------------- cli.py -------------------------------- *)
REDIRECT_URI == "http://localhost:8000/callback"

(* str.strip() of the line typed at the prompt; a line is a sequence of
   characters, " " the whitespace *)
RECURSIVE LStrip(_)
LStrip(line) ==
  IF line # <<>> /\ Head(line) = " " THEN LStrip(Tail(line)) ELSE line

RECURSIVE RStrip(_)
RStrip(line) ==
  IF line # <<>> /\ line[Len(line)] = " "
  THEN RStrip(SubSeq(line, 1, Len(line) - 1))
  ELSE line

(* Strip that strips nothing *)
StripNothing(line) == line

Strip(line) == RStrip(LStrip(line))

(* what a pass of either loop prints (lines 36-37, 79-80): the text of the
   first part, when the event has content and parts and that text is set *)
FirstPartText(event) ==
  IF event.content /\ event.parts # <<>> THEN event.parts[1].text ELSE {}

(* AuthContent addressed to the tool call that asked for the credential
   instead of the credential request *)
AuthContent_ToolCallId(fc, config, uri) ==
  [ role |-> "user",
    function_response |->
      [ id |-> (CHOOSE a \in fc.args : TRUE).function_call_id,
        name |-> fc.name,
        response |->
          MapSet(config, "exchanged_auth_credential",
                 MapSet(MapSet(config["exchanged_auth_credential"],
                               "auth_response_uri", uri),
                        "redirect_uri", REDIRECT_URI)) ] ]

(* the function response that resumes the turn (lines 58-72) *)
AuthContent(fc, config, uri) ==
  [ role |-> "user",
    function_response |->
      [ id |-> fc.id,
        name |-> fc.name,
        response |->
          MapSet(config, "exchanged_auth_credential",
                 MapSet(MapSet(config["exchanged_auth_credential"],
                               "auth_response_uri", uri),
                        "redirect_uri", REDIRECT_URI)) ] ]

(* ---------------------- agent.py: the two tools ----------------------- *)
MESSAGE_CAP == 500
MAX_PAGE_SIZE == 1000
SPACES_PAGE_SIZE == 1000

PendingReturn ==
  [status |-> "pending", message |-> "Awaiting user authentication."]

ErrorReturn == [status |-> "error", message |-> "An API error occurred"]

Min(a, b) == IF a <= b THEN a ELSE b

(* The ith message of the backing source, in the order it returns them
   (createTime descending); every other message has no sender. *)
SourceMessage(i) ==
  IF i % 2 = 1
  THEN [text |-> i, createTime |-> 0 - i, sender |-> [displayName |-> "u"]]
  ELSE [text |-> i, createTime |-> 0 - i]

(* the entry list_space_messages keeps of a message (lines 145-149) *)
MessageEntry(msg) ==
  LET e == [text |-> msg["text"], createTime |-> msg["createTime"]]
  IN  IF "sender" \in DOMAIN msg /\ "displayName" \in DOMAIN msg["sender"]
      THEN MapSet(e, "author", msg["sender"]["displayName"])
      ELSE e

(* all_messages after a page of k messages, the source having served
   `served` messages before it *)
AppendPage(all, served, k) ==
  all \o [i \in 1..k |-> MessageEntry(SourceMessage(served + i))]

(* PageSize without the cap *)
PageSizeUncapped(all) == MAX_PAGE_SIZE

(* page_size of the next request (line 135) *)
PageSize(all) == Min(MESSAGE_CAP - Len(all), MAX_PAGE_SIZE)

(* pageSize of the request a tool makes next (lines 104, 135-137) *)
RequestedPageSize(f) ==
  IF f.tool = "list_space_messages" THEN PageSize(f.items) ELSE SPACES_PAGE_SIZE

(* ListContinues that goes on while there is a token *)
ListContinues_IgnoreCap(all, token) == token # {}

(* the loop of list_space_messages goes on (lines 134, 151) *)
ListContinues(all, token) == token # {} /\ Len(all) < MESSAGE_CAP

(* str.lower() over the characters the model uses *)
Lower(ch) == CASE ch = "T" -> "t" [] ch = "E" -> "e" [] OTHER -> ch

LowerStr(str) == [i \in 1..Len(str) |-> Lower(str[i])]

(* q in s *)
Contains(q, str) ==
  \E i \in 1..(Len(str) - Len(q) + 1) : SubSeq(str, i, i + Len(q) - 1) = q

(* spaces whose display name holds the query, case-insensitively, each
   reduced to its displayName and name (lines 110-114) *)
RECURSIVE FilterSpaces(_, _)
FilterSpaces(spaces, query) ==
  IF spaces = <<>> THEN <<>>
  ELSE LET sp == Head(spaces)
           dn == IF "displayName" \in DOMAIN sp THEN sp["displayName"] ELSE <<>>
           entry == [k \in DOMAIN sp \cap {"displayName", "name"} |-> sp[k]]
       IN  IF Contains(LowerStr(query), LowerStr(dn))
           THEN <<entry>> \o FilterSpaces(Tail(spaces), query)
           ELSE FilterSpaces(Tail(spaces), query)

(* the return of search_all_chat_spaces (lines 116-119) *)
SearchReturn(spaces, query) ==
  IF FilterSpaces(spaces, query) = <<>>
  THEN [status |-> "success",
        message |-> "No chat spaces found matching your query."]
  ELSE [status |-> "success", found_spaces |-> FilterSpaces(spaces, query)]

(* the return of list_space_messages (line 153) *)
ListReturn(all) == [messages |-> all]

(* ------------------------------ the state ----------------------------- *)
VARIABLES
  state,                       \* the session state (tool_context.state)
  exchanged,                   \* the exchanged credential the runtime holds
  now,                         \* the clock
  issued,                      \* tokens the token endpoint has issued
  auth_scheme,                 \* agent.py's module-level auth_scheme
  auth_credential,             \* agent.py's module-level auth_credential
  pc,                          \* where the driver (cli.py) is
  auth_request_function_call,  \* handle_agent_run's local of that name
  auth_config,                 \* handle_agent_run's local of that name
  text,                        \* handle_agent_run's local of that name: what
                               \* the pass of the loop printed
  rt,                          \* where the runtime's event generator is
  events,                      \* events yielded and not yet consumed
  call,                        \* the tool call the runtime is executing
  suspended,                   \* the tool calls awaiting a credential, by auth call id
  frame,                       \* the locals of the tool that is running
  ret,                         \* what the tool returned
  toolCalls,                   \* tool calls the model has made in this session
  calls,                       \* the last get_credentials call of this turn:
                               \* its inputs and its result
  descriptors,                 \* every AuthConfig given to request_credential
  resumption,                  \* the messages submitted to the runtime in this turn
  log,                         \* what has happened in this turn
  source                       \* the backing source of the Chat API: small or large

vars ==
  << state, exchanged, now, issued, auth_scheme, auth_credential, pc,
     auth_request_function_call, auth_config, text, rt, events, call,
     suspended, frame, ret, toolCalls, calls, descriptors, resumption, log,
     source >>

(* ------------------------ the runtime's inputs ------------------------ *)
TOOLS == {"search_all_chat_spaces", "list_space_messages"}

NoCall == [tool |-> "none", id |-> <<"call", 0>>, query |-> <<>>]

NoFrame ==
  [tool |-> "none", items |-> <<>>, page_token |-> {}, served |-> 0,
   requests |-> 0, page_size |-> 0, query |-> <<>>]

(* the log of a turn: request_credential calls, resumption messages, writes
   of the cache key, consent prompts, tool calls of the model, whether the
   turn started without a cached token, the line typed at the consent
   prompt, the session state and the writes when the prompt was shown,
   whether the first loop has passed over an event that get_auth_request_
   function_call rejected although it carries a credential-request call or
   a long-running call, and the credential requests the second loop has
   passed over *)
NewLog ==
  [signals |-> 0, resumed |-> 0, writes |-> 0, prompts |-> 0, tools |-> 0,
   startedEmpty |-> FALSE, line |-> {}, stateAtPrompt |-> EmptyMap,
   writesAtPrompt |-> 0, strays |-> FALSE, unhandled |-> 0]

(* cli.py, line 101: the one session of the process *)
SESSION == [id |-> "session-1", user_id |-> "cli-user"]

(* runner.run_async(session_id=, user_id=, new_message=) *)
RunAsync(session, message) ==
  [session_id |-> session.id, user_id |-> session.user_id,
   new_message |-> message]

(* lines typed at the main prompt and at the consent prompt *)
UserLines == { <<"E", "x", "i", "t">>, <<"q", "u", "i", "t">>, <<"h", "i">> }

ExitTokens == { <<"e", "x", "i", "t">>, <<"q", "u", "i", "t">> }

ConsentLines == { <<>>, <<" ">>, <<" ", "ok-url", " ">>, <<"bad-url">> }

(* a callback URL the token endpoint accepts *)
WellFormed(uri) == uri = <<"ok-url">>

(* display-name queries, and the pages of spaces the Chat API may return,
   for a small and for a large backing source *)
Queries == { <<"E">>, <<"x">> }

SpacePages(src) ==
  IF src = "large"
  THEN { <<>>,
         << [name |-> "spaces/1", displayName |-> <<"T", "e">>] >>,
         << [name |-> "spaces/2", displayName |-> <<"t">>],
            [name |-> "spaces/3"] >> }
  ELSE { << [name |-> "spaces/1", displayName |-> <<"T", "e">>] >> }

(* how many messages a page of the Chat API may hold, for a small and for a
   large backing source *)
PageFills(src, page_size) ==
  IF src = "large" THEN {0, 1, 250, page_size} ELSE {0, 1}

(* the argument the model gives a tool: a display-name query, a space *)
Arguments(tool) ==
  IF tool = "search_all_chat_spaces" THEN Queries ELSE { <<"s">> }

(* The authConfig argument the runtime puts into the credential request. *)
AuthArgShapes == {"dict", "AuthConfig", "invalid", "empty", "other", "missing", "noargs"}

GeneratedAuthConfig(cfg) ==
  MapSet(cfg, "exchanged_auth_credential",
         [auth_uri |-> cfg.auth_scheme.authorizationUrl])

AuthArgs(shape, cfg, id) ==
  LET with(data) == {[function_call_id |-> id, authConfig |-> data]}
  IN  CASE shape = "dict" ->
             with([type |-> "dict", fields |-> GeneratedAuthConfig(cfg)])
        [] shape = "AuthConfig" ->
             with([type |-> "AuthConfig", fields |-> GeneratedAuthConfig(cfg)])
        [] shape = "invalid" ->
             with([type |-> "dict",
                   fields |-> [raw_auth_credential |-> cfg.raw_auth_credential]])
        [] shape = "empty" -> with([type |-> "dict", fields |-> EmptyMap])
        [] shape = "other" ->
             with([type |-> "str", fields |-> [value |-> "auth"]])
        [] shape = "missing" -> {[function_call_id |-> id]}
        [] OTHER -> {}

TextEvent == Event(<<Part({"text"}, {})>>, {})

FunctionCallEvent(c) ==
  Event(<<Part({}, {[name |-> c.tool, id |-> c.id, args |-> {[query |-> c.query]}]})>>, {})

FunctionResponseEvent == Event(<<Part({}, {})>>, {})

(* other events the runtime may yield: one without content, one with text
   in two parts, a credential-request call that is not long-running, one
   whose id is not among the long-running ids, and a long-running call of
   another name *)
NoContentEvent ==
  [content |-> FALSE, parts |-> <<>>, long_running_tool_ids |-> {}]

TwoTextEvent == Event(<<Part({"text"}, {}), Part({"more"}, {})>>, {})

StrayCall(name) == [name |-> name, id |-> <<"adk", 0>>, args |-> {}]

OtherEvents ==
  { NoContentEvent,
    TwoTextEvent,
    Event(<<Part({}, {StrayCall(REQUEST_CREDENTIAL)})>>, {}),
    Event(<<Part({}, {StrayCall(REQUEST_CREDENTIAL)})>>, {<<"adk", 99>>}),
    Event(<<Part({}, {StrayCall("long_running_tool")})>>, {<<"adk", 0>>}) }

(* an event that carries a credential-request call or a long-running call
   and that get_auth_request_function_call rejects *)
NearMiss(event) ==
  /\ get_auth_request_function_call(event) = {}
  /\ \E i \in 1..Len(event.parts) : \E fc \in event.parts[i].function_call :
        fc.name = REQUEST_CREDENTIAL \/ fc.id \in event.long_running_tool_ids

AuthEvent(c, cfg, shape) ==
  LET id == <<"adk", c.id[2]>>
  IN  Event(<<Part({}, {[name |-> REQUEST_CREDENTIAL, id |-> id,
                         args |-> AuthArgs(shape, cfg, c.id)]})>>, {id})

(* ------------------------------- Init ---------------------------------- *)
Init ==
  /\ state = EmptyMap
  /\ exchanged = {}
  /\ now = 0
  /\ issued = 0
  /\ auth_scheme = AuthSchemeConfigured
  /\ auth_credential = AuthCredentialConfigured
  /\ pc = "idle"
  /\ auth_request_function_call = {}
  /\ auth_config = EmptyMap
  /\ text = {}
  /\ rt = "off"
  /\ events = <<>>
  /\ call = NoCall
  /\ suspended = EmptyMap
  /\ frame = NoFrame
  /\ ret = EmptyMap
  /\ toolCalls = 0
  /\ calls = EmptyMap
  /\ descriptors = {}
  /\ resumption = <<>>
  /\ log = NewLog
  /\ source = "small"

(* ------------------------ cli.py: the main loop ------------------------ *)
(* main, lines 106-112, with handle_agent_run's lines 27-34: a line that is
   not an exit token starts a turn; the generator of the run is created. *)
UserQuery(line) ==
  /\ pc \in {"idle", "returned"}
  /\ LowerStr(line) \notin ExitTokens
  /\ pc' = "running"
  /\ rt' = "llm"
  /\ events' = <<>>
  /\ exchanged' = {}
  /\ auth_request_function_call' = {}
  /\ auth_config' = EmptyMap
  /\ text' = {}
  /\ suspended' = EmptyMap
  /\ call' = NoCall
  /\ ret' = EmptyMap
  /\ frame' = NoFrame
  /\ resumption' = <<RunAsync(SESSION, [role |-> "user", text |-> line])>>
  /\ log' = [NewLog EXCEPT !.startedEmpty = (TOKEN_CACHE_KEY \notin DOMAIN state)]
  /\ calls' = EmptyMap
  /\ UNCHANGED <<source, state, now, issued, auth_scheme, auth_credential,
                 toolCalls, descriptors>>

(* main, lines 108-110: exit or quit, in any case, ends the session *)
Exit(line) ==
  /\ pc \in {"idle", "returned"}
  /\ LowerStr(line) \in ExitTokens
  /\ pc' = "exited"
  /\ auth_request_function_call' = {}
  /\ auth_config' = EmptyMap
  /\ text' = {}
  /\ suspended' = EmptyMap
  /\ call' = NoCall
  /\ ret' = EmptyMap
  /\ frame' = NoFrame
  /\ resumption' = <<>>
  /\ log' = NewLog
  /\ calls' = EmptyMap
  /\ exchanged' = {}
  /\ UNCHANGED <<source, state, now, issued, auth_scheme, auth_credential,
                 rt, events, toolCalls, descriptors>>

(* ------------------ the runtime (external): its stream ----------------- *)
(* The generator runs only while the driver awaits its next event. *)
Pulled == pc \in {"running", "resumed"} /\ events = <<>>

(* the model answers with text *)
RuntimeText ==
  /\ Pulled
  /\ rt = "llm"
  /\ events' = <<TextEvent>>
  /\ UNCHANGED <<text, source, state, exchanged, now, issued, auth_scheme, auth_credential,
                 pc, auth_request_function_call, auth_config, rt, call,
                 suspended, frame, ret, toolCalls, calls, descriptors,
                 resumption, log>>

(* the runtime yields another event *)
RuntimeOther(event) ==
  /\ Pulled
  /\ rt = "llm"
  /\ events' = <<event>>
  /\ UNCHANGED <<text, source, state, exchanged, now, issued, auth_scheme,
                 auth_credential, pc, auth_request_function_call, auth_config,
                 rt, call, suspended, frame, ret, toolCalls, calls,
                 descriptors, resumption, log>>

(* the model calls a tool: the function-call event is yielded first *)
RuntimeCallTool(tool, query) ==
  /\ Pulled
  /\ rt = "llm"
  /\ toolCalls < MaxCalls
  /\ toolCalls' = toolCalls + 1
  /\ log' = [log EXCEPT !.tools = @ + 1]
  /\ call' = [tool |-> tool, id |-> <<"call", toolCalls + 1>>, query |-> query]
  /\ events' = <<FunctionCallEvent(call')>>
  /\ rt' = "exec"
  /\ UNCHANGED <<text, source, state, exchanged, now, issued, auth_scheme, auth_credential,
                 pc, auth_request_function_call, auth_config, suspended, frame,
                 ret, calls, descriptors, resumption>>

(* the tool's result goes back to the model *)
RuntimeRespond ==
  /\ Pulled
  /\ rt = "respond"
  /\ events' = <<FunctionResponseEvent>>
  /\ rt' = "llm"
  /\ ret' = EmptyMap
  /\ frame' = NoFrame
  /\ call' = NoCall
  /\ calls' = EmptyMap
  /\ UNCHANGED <<text, source, state, exchanged, now, issued, auth_scheme, auth_credential,
                 pc, auth_request_function_call, auth_config, suspended,
                 toolCalls, descriptors, resumption, log>>

(* the run is over *)
RuntimeEnd ==
  /\ Pulled
  /\ rt = "llm"
  /\ rt' = "ended"
  /\ UNCHANGED <<text, source, state, exchanged, now, issued, auth_scheme, auth_credential,
                 pc, auth_request_function_call, auth_config, events, call,
                 suspended, frame, ret, toolCalls, calls, descriptors,
                 resumption, log>>

(* Time passes.  The clock is read only by get_credentials, so it is enough
   to let it advance right before a tool runs. *)
Tick ==
  /\ now < MaxTime
  /\ Pulled
  /\ rt = "exec"
  /\ now' = now + 1
  /\ UNCHANGED <<text, source, state, exchanged, issued, auth_scheme, auth_credential, pc,
                 auth_request_function_call, auth_config, rt, events, call,
                 suspended, frame, ret, toolCalls, calls, descriptors,
                 resumption, log>>

(* ------------- agent.py: a tool is called (lines 98-99, 129-130) -------- *)
(* The tool resolves the credentials.  Without them it returns pending, and
   the runtime yields the credential request; with them it builds the
   service and enters its pagination loop (lines 101-102, 132-133). *)
ToolEnter(outcome, shape) ==
  /\ Pulled
  /\ rt = "exec"
  /\ \E r \in {get_credentials(state, exchanged, auth_scheme, auth_credential,
                                now, outcome, issued)} :
     LET won == r.refreshCalls > 0 /\ outcome # "fail"
     IN  /\ r.refreshCalls = 0 => outcome = "fail"
         /\ (r.requested = {} \/ pc = "resumed") => shape = "dict"
         /\ state' = r.state
         /\ issued' = IF won THEN issued + 1 ELSE issued
         /\ calls' = [before |-> state, exch |-> exchanged, t |-> now,
                       issued |-> issued, outcome |-> outcome, r |-> r]
         /\ descriptors' = descriptors \cup r.requested
         /\ log' = [log EXCEPT !.writes = @ + r.writes,
                               !.signals = @ + Cardinality(r.requested)]
         /\ IF r.creds = {}
            THEN /\ ret' = PendingReturn
                 /\ frame' = NoFrame
                 /\ events' = <<AuthEvent(call, CHOOSE cfg \in r.requested : TRUE,
                                          shape)>>
                 /\ suspended' = IF pc = "running"
                                 THEN MapSet(suspended, <<"adk", call.id[2]>>, call)
                                 ELSE suspended
                 /\ rt' = "respond"
            ELSE /\ ret' = EmptyMap
                 /\ frame' = [NoFrame EXCEPT !.tool = call.tool,
                                             !.query = call.query]
                 /\ rt' = "tool"
                 /\ UNCHANGED <<events, suspended>>
  /\ UNCHANGED <<text, source, exchanged, now, auth_scheme, auth_credential, pc,
                 auth_request_function_call, auth_config, call, toolCalls, resumption>>

(* list_space_messages, one pass of the loop (lines 134-152): a page of k
   messages comes back, with a next-page token or without; the loop ends
   without a token or at the cap, and the messages are returned. *)
ListPage(k, more) ==
  /\ Pulled
  /\ rt = "tool"
  /\ frame.tool = "list_space_messages"
  /\ k \in PageFills(source, PageSize(frame.items))
  /\ k <= PageSize(frame.items)
  /\ more => frame.requests + 1 < MaxPages
  /\ LET all == AppendPage(frame.items, frame.served, k)
         token == IF more THEN {frame.requests + 1} ELSE {}
     IN  IF ListContinues(all, token)
         THEN /\ frame' = [frame EXCEPT !.items = all, !.page_token = token,
                                        !.served = @ + k, !.requests = @ + 1,
                                        !.page_size = PageSize(frame.items)]
              /\ UNCHANGED <<rt, ret>>
         ELSE /\ frame' = [NoFrame EXCEPT !.requests = frame.requests + 1,
                                          !.page_token = token,
                                          !.page_size = PageSize(frame.items)]
              /\ ret' = ListReturn(all)
              /\ rt' = "respond"
  /\ UNCHANGED <<text, source, state, exchanged, now, issued, auth_scheme, auth_credential,
                 pc, auth_request_function_call, auth_config, events, call,
                 suspended, toolCalls, calls, descriptors, resumption,
                 log>>

(* search_all_chat_spaces, one pass of the loop (lines 103-108), and after
   the last one the filter and the return (lines 110-119) *)
SearchPage(spaces, more) ==
  /\ Pulled
  /\ rt = "tool"
  /\ frame.tool = "search_all_chat_spaces"
  /\ more => frame.requests + 1 < MaxPages
  /\ LET all == frame.items \o spaces
     IN  IF more
         THEN /\ frame' = [frame EXCEPT !.items = all,
                                        !.page_token = {frame.requests + 1},
                                        !.requests = @ + 1,
                                        !.page_size = SPACES_PAGE_SIZE]
              /\ UNCHANGED <<rt, ret>>
         ELSE /\ frame' = [NoFrame EXCEPT !.requests = frame.requests + 1,
                                          !.page_size = SPACES_PAGE_SIZE]
              /\ ret' = SearchReturn(all, frame.query)
              /\ rt' = "respond"
  /\ UNCHANGED <<text, source, state, exchanged, now, issued, auth_scheme, auth_credential,
                 pc, auth_request_function_call, auth_config, events, call,
                 suspended, toolCalls, calls, descriptors, resumption,
                 log>>

(* a request of either tool raises HttpError (lines 120-121, 154-155) *)
ApiError ==
  /\ Pulled
  /\ rt = "tool"
  /\ frame' = [NoFrame EXCEPT !.requests = frame.requests + 1,
                               !.page_size = RequestedPageSize(frame)]
  /\ ret' = ErrorReturn
  /\ rt' = "respond"
  /\ UNCHANGED <<text, source, state, exchanged, now, issued, auth_scheme, auth_credential,
                 pc, auth_request_function_call, auth_config, events, call,
                 suspended, toolCalls, calls, descriptors, resumption,
                 log>>

(* --------------------- cli.py: handle_agent_run ------------------------ *)
(* One pass of the first loop (lines 35-40), and on a credential request
   the break and lines 42-52: the AuthConfig is taken from the call, the
   URL is derived from its auth_uri and the prompt is shown.  An error on
   the way ends the program. *)
ConsumeInitial ==
  /\ pc = "running"
  /\ events # <<>>
  /\ text' = FirstPartText(Head(events))
  /\ LET event == Head(events)
         auth_req == get_auth_request_function_call(event)
         fc == CHOOSE f \in auth_req : TRUE
         got == get_auth_config(fc)
     IN  IF auth_req = {}
         THEN /\ events' = Tail(events)
              /\ log' = [log EXCEPT !.strays = @ \/ NearMiss(event)]
              /\ UNCHANGED <<pc, rt, auth_request_function_call, auth_config>>
         ELSE /\ auth_request_function_call' = auth_req
              /\ events' = <<>>
              /\ rt' = "abandoned"
              /\ IF got.raised \/ "exchanged_auth_credential" \notin DOMAIN got.config
                 THEN /\ pc' = "crashed"
                      /\ UNCHANGED <<auth_config, log>>
                 ELSE /\ pc' = "awaiting"
                      /\ auth_config' = got.config
                      /\ log' = [log EXCEPT !.prompts = @ + 1,
                                            !.stateAtPrompt = state,
                                            !.writesAtPrompt = log.writes]
  /\ UNCHANGED <<source, state, exchanged, now, issued, auth_scheme, auth_credential,
                 call, suspended, frame, ret, toolCalls, calls,
                 descriptors, resumption>>

(* the first stream ends without a credential request (lines 42, 82) *)
EndInitial ==
  /\ pc = "running"
  /\ events = <<>>
  /\ rt = "ended"
  /\ pc' = "returned"
  /\ text' = {}
  /\ rt' = "off"
  /\ UNCHANGED <<source, state, exchanged, now, issued, auth_scheme, auth_credential,
                 auth_request_function_call, auth_config, events, call,
                 suspended, frame, ret, toolCalls, calls, descriptors,
                 resumption, log>>

(* What the runtime does with the resumption message before the resumed
   stream starts (external): it exchanges the callback URL at the token
   endpoint, holds the result if there is one, and executes again the tool
   call that the answered credential request belongs to. *)
ExchangeResult(uri, n, withRefresh) ==
  IF ~WellFormed(uri) THEN {}
  ELSE IF withRefresh
       THEN {[access_token |-> AccessToken(n + 1),
              refresh_token |-> RefreshToken(n + 1)]}
       ELSE {[access_token |-> AccessToken(n + 1)]}

(* The line typed at the consent prompt (lines 52-77): an empty one cancels
   the turn; any other is stripped, put into the AuthConfig with the
   redirect URI, and sent as the function response of the credential
   request on the same session. *)
ConsentInput(line, withRefresh) ==
  /\ pc = "awaiting"
  /\ LET uri == Strip(line)
         fc == CHOOSE f \in auth_request_function_call : TRUE
         msg == AuthContent(fc, auth_config, uri)
         answered == msg.function_response.id
         callback ==
           msg.function_response.response["exchanged_auth_credential"]["auth_response_uri"]
     IN  IF uri = <<>>
         THEN /\ ~withRefresh
              /\ pc' = "returned"
              /\ text' = {}
              /\ rt' = "off"
              /\ log' = [log EXCEPT !.line = {line}]
              /\ UNCHANGED <<exchanged, issued, resumption, call, ret>>
         ELSE /\ ~WellFormed(callback) => ~withRefresh
              /\ pc' = "resumed"
              /\ UNCHANGED text
              /\ resumption' = Append(resumption, RunAsync(SESSION, msg))
              /\ log' = [log EXCEPT !.resumed = @ + 1, !.line = {line}]
              /\ exchanged' = ExchangeResult(callback, issued, withRefresh)
              /\ issued' = IF WellFormed(callback) THEN issued + 1 ELSE issued
              /\ ret' = EmptyMap
              /\ IF answered \in DOMAIN suspended
                 THEN /\ call' = suspended[answered]
                      /\ rt' = "exec"
                 ELSE /\ rt' = "llm"
                      /\ UNCHANGED call
  /\ UNCHANGED <<source, state, now, auth_scheme, auth_credential,
                 auth_request_function_call, auth_config, events, suspended,
                 frame, toolCalls, calls, descriptors>>

(* a second loop that handles a credential request as the first loop does *)
ConsumeResumed_Retry ==
  /\ pc = "resumed"
  /\ events # <<>>
  /\ text' = FirstPartText(Head(events))
  /\ LET auth_req == get_auth_request_function_call(Head(events))
         got == get_auth_config(CHOOSE f \in auth_req : TRUE)
     IN  IF auth_req = {}
         THEN /\ events' = Tail(events)
              /\ UNCHANGED <<pc, rt, auth_request_function_call, auth_config, log>>
         ELSE /\ events' = <<>>
              /\ rt' = "abandoned"
              /\ pc' = "awaiting"
              /\ auth_request_function_call' = auth_req
              /\ auth_config' = got.config
              /\ log' = [log EXCEPT !.prompts = @ + 1]
  /\ UNCHANGED <<source, state, exchanged, now, issued, auth_scheme, auth_credential,
                 call, suspended, frame, ret, toolCalls, calls, descriptors,
                 resumption>>

(* one pass of the second loop (lines 78-80) *)
ConsumeResumed ==
  /\ pc = "resumed"
  /\ events # <<>>
  /\ text' = FirstPartText(Head(events))
  /\ log' = IF get_auth_request_function_call(Head(events)) # {}
             THEN [log EXCEPT !.unhandled = @ + 1]
             ELSE log
  /\ events' = Tail(events)
  /\ UNCHANGED <<source, state, exchanged, now, issued, auth_scheme, auth_credential,
                 pc, auth_request_function_call, auth_config, rt, call,
                 suspended, frame, ret, toolCalls, calls, descriptors,
                 resumption>>

(* the second stream ends (line 82) *)
EndResumed ==
  /\ pc = "resumed"
  /\ events = <<>>
  /\ rt = "ended"
  /\ pc' = "returned"
  /\ text' = {}
  /\ rt' = "off"
  /\ UNCHANGED <<source, state, exchanged, now, issued, auth_scheme, auth_credential,
                 auth_request_function_call, auth_config, events, call,
                 suspended, frame, ret, toolCalls, calls, descriptors,
                 resumption, log>>

(* --------------------------- specification ----------------------------- *)
Next ==
  \/ \E line \in UserLines : UserQuery(line)
  \/ \E line \in UserLines : Exit(line)
  \/ RuntimeText
  \/ \E tool \in TOOLS : \E arg \in Arguments(tool) : RuntimeCallTool(tool, arg)
  \/ RuntimeRespond
  \/ RuntimeEnd
  \/ Tick
  \/ \E outcome \in RefreshOutcomes, shape \in AuthArgShapes :
       ToolEnter(outcome, shape)
  \/ \E k \in PageFills(source, PageSize(frame.items)), more \in BOOLEAN :
       ListPage(k, more)
  \/ \E spaces \in SpacePages(source), more \in BOOLEAN : SearchPage(spaces, more)
  \/ ApiError
  \/ ConsumeInitial
  \/ EndInitial
  \/ \E line \in ConsentLines, withRefresh \in BOOLEAN :
       ConsentInput(line, withRefresh)
  \/ ConsumeResumed
  \/ EndResumed

Spec == Init /\ [][Next]_vars

(* ------------- a run against a large backing source -------------------- *)
(* The session state after a first turn with a consent exchange. *)
MintedState ==
  get_credentials(EmptyMap, ExchangeResult(<<"ok-url">>, 0, TRUE),
                  AuthSchemeConfigured, AuthCredentialConfigured, 0, "fail",
                  1).state

(* The second turn has just started: the model has made one tool call so
   far, and the Chat API serves a large source. *)
InitPages ==
  /\ state = MintedState
  /\ exchanged = {}
  /\ now = 0
  /\ issued = 1
  /\ auth_scheme = AuthSchemeConfigured
  /\ auth_credential = AuthCredentialConfigured
  /\ pc = "running"
  /\ auth_request_function_call = {}
  /\ auth_config = EmptyMap
  /\ text = {}
  /\ rt = "llm"
  /\ events = <<>>
  /\ call = NoCall
  /\ suspended = EmptyMap
  /\ frame = NoFrame
  /\ ret = EmptyMap
  /\ toolCalls = 1
  /\ calls = EmptyMap
  /\ descriptors = {AuthConfig(AuthSchemeConfigured, AuthCredentialConfigured)}
  /\ resumption = <<RunAsync(SESSION, [role |-> "user", text |-> <<"h", "i">>])>>
  /\ log = [NewLog EXCEPT !.startedEmpty = FALSE]
  /\ source = "large"

NextPages ==
  \/ RuntimeText
  \/ \E tool \in TOOLS : \E arg \in Arguments(tool) : RuntimeCallTool(tool, arg)
  \/ RuntimeRespond
  \/ RuntimeEnd
  \/ \E outcome \in RefreshOutcomes, shape \in AuthArgShapes :
       ToolEnter(outcome, shape)
  \/ \E k \in PageFills(source, PageSize(frame.items)), more \in BOOLEAN :
       ListPage(k, more)
  \/ \E spaces \in SpacePages(source), more \in BOOLEAN : SearchPage(spaces, more)
  \/ ApiError
  \/ ConsumeInitial
  \/ EndInitial

SpecPages == InitPages /\ [][NextPages]_vars

(* ------------- a turn whose streams hold events of any kind ------------ *)
(* The first turn of the session has just started (lines 27-34). *)
InitStream ==
  /\ state = EmptyMap
  /\ exchanged = {}
  /\ now = 0
  /\ issued = 0
  /\ auth_scheme = AuthSchemeConfigured
  /\ auth_credential = AuthCredentialConfigured
  /\ pc = "running"
  /\ auth_request_function_call = {}
  /\ auth_config = EmptyMap
  /\ text = {}
  /\ rt = "llm"
  /\ events = <<>>
  /\ call = NoCall
  /\ suspended = EmptyMap
  /\ frame = NoFrame
  /\ ret = EmptyMap
  /\ toolCalls = 0
  /\ calls = EmptyMap
  /\ descriptors = {}
  /\ resumption = <<RunAsync(SESSION, [role |-> "user", text |-> <<"h", "i">>])>>
  /\ log = [NewLog EXCEPT !.startedEmpty = TRUE]
  /\ source = "small"

NextStream ==
  \/ RuntimeText
  \/ \E event \in OtherEvents : RuntimeOther(event)
  \/ \E tool \in TOOLS : \E arg \in Arguments(tool) : RuntimeCallTool(tool, arg)
  \/ RuntimeRespond
  \/ RuntimeEnd
  \/ Tick
  \/ \E outcome \in RefreshOutcomes, shape \in AuthArgShapes :
       ToolEnter(outcome, shape)
  \/ \E k \in PageFills(source, PageSize(frame.items)), more \in BOOLEAN :
       ListPage(k, more)
  \/ \E spaces \in SpacePages(source), more \in BOOLEAN : SearchPage(spaces, more)
  \/ ApiError
  \/ ConsumeInitial
  \/ EndInitial
  \/ \E line \in ConsentLines, withRefresh \in BOOLEAN :
       ConsentInput(line, withRefresh)
  \/ ConsumeResumed
  \/ EndResumed

SpecStream == InitStream /\ [][NextStream]_vars

(* The steps that are taken whenever they can be: the driver's loops
   consume an event that was yielded and see the end of a stream, the prompt
   is answered, and a tool that was called resolves its credentials and
   makes its requests, the Chat API answering each.  No two of them can be
   taken in the same state unless they are steps of the same tool. *)
Progress ==
  \/ ConsumeInitial
  \/ EndInitial
  \/ ConsumeResumed
  \/ EndResumed
  \/ \E line \in ConsentLines, withRefresh \in BOOLEAN :
       ConsentInput(line, withRefresh)
  \/ \E outcome \in RefreshOutcomes, shape \in AuthArgShapes :
       ToolEnter(outcome, shape)
  \/ \E k \in PageFills(source, PageSize(frame.items)), more \in BOOLEAN :
       ListPage(k, more)
  \/ \E spaces \in SpacePages(source), more \in BOOLEAN : SearchPage(spaces, more)
  \/ RuntimeRespond

(* The driver and the tools run, and a stream is finite: the model, again
   and again in a position to end it, ends it. *)
Fairness == WF_vars(Progress) /\ SF_vars(RuntimeEnd)

LiveStream == SpecStream /\ Fairness

(* a run against a large backing source in which the tools take their steps *)
LivePages == SpecPages /\ Fairness

(* ------------------- the last get_credentials call --------------------- *)
Called == "r" \in DOMAIN calls

CachedInfo == MapGet(calls.before, TOKEN_CACHE_KEY)

Info == CHOOSE v \in CachedInfo : TRUE

(* the cached mapping parsed *)
Parses == Called /\ Truthy(CachedInfo) /\ ~FromInfoRaises(Info)

Parsed == from_authorized_user_info(Info, SCOPES, calls.t)

ParseFailed == Called /\ Truthy(CachedInfo) /\ FromInfoRaises(Info)

CachedValid == Parses /\ Valid(Parsed, calls.t)

Refreshable ==
  Parses /\ ~Valid(Parsed, calls.t) /\ Expired(Parsed, calls.t)
         /\ "refresh_token" \in DOMAIN Parsed

RefreshWon == Refreshable /\ calls.outcome # "fail"

RefreshLost == Refreshable /\ calls.outcome = "fail"

(* the same call in a session without a cached credential *)
NoCredential ==
  get_credentials(EmptyMap, calls.exch, auth_scheme, auth_credential, calls.t,
                  "fail", calls.issued)

CanonicalAuthConfig ==
  [ auth_scheme |->
      [ type |-> "oauth2",
        flow |-> "authorizationCode",
        authorizationUrl |-> "https://accounts.google.com/o/oauth2/auth",
        tokenUrl |-> "https://oauth2.googleapis.com/token",
        scopes |-> { "https://www.googleapis.com/auth/chat.spaces.readonly",
                     "https://www.googleapis.com/auth/chat.messages.readonly" } ],
    raw_auth_credential |->
      [ auth_type |-> "oauth2", client_id |-> "client-id",
        client_secret |-> "client-secret" ] ]

Blank(line) == \A i \in 1..Len(line) : line[i] = " "

(* ------------------------------ claims --------------------------------- *)
(* C1: a turn that starts without a cached token, in which the model makes
   one tool call and the human answers the prompt with a well-formed
   callback URL, has at its end exactly one request_credential call, exactly
   one resumption message, submitted on the session of the first message,
   and exactly one write of the token under google_chat_user_tokens; and
   whenever the prompt of a turn that started without a cached token is
   shown, exactly one credential has been requested. *)
C1_EndToEnd ==
  /\ (pc = "awaiting" /\ log.startedEmpty) => log.signals = 1
  /\ ( /\ pc = "returned"
       /\ log.startedEmpty
       /\ log.tools = 1
       /\ \E l \in log.line : WellFormed(Strip(l)) )
     => /\ log.signals = 1
        /\ log.resumed = 1
        /\ Len(resumption) = 2
        /\ resumption[2].session_id = resumption[1].session_id
        /\ "function_response" \in DOMAIN resumption[2].new_message
        /\ log.writes = 1
        /\ TOKEN_CACHE_KEY \in DOMAIN state

C1_Witness ==
  /\ pc = "returned"
  /\ log.startedEmpty
  /\ log.tools = 1
  /\ \E l \in log.line : WellFormed(Strip(l))
  /\ log.writes = 1
  /\ log.signals = 1

(* C2: a get_credentials call that finds a valid cached token returns that
   token (the cached mapping as loaded: its entries, the expiry to the
   second), makes no refresh call, requests no credential and leaves the
   session state as it was; a second call right after it returns the same
   credentials, again without a refresh call, a request or a write. *)
C2_IdempotentValid ==
  CachedValid =>
    /\ Cardinality(calls.r.creds) = 1
    /\ \A c \in calls.r.creds :
         /\ c = Parsed
         /\ \A k \in DOMAIN Info \ {"expiry"} : c[k] = Info[k]
         /\ c["expiry"].seconds = Info["expiry"].seconds
    /\ calls.r.refreshCalls = 0
    /\ calls.r.requested = {}
    /\ calls.r.writes = 0
    /\ calls.r.state = calls.before
    /\ \A o \in RefreshOutcomes :
         LET again == get_credentials(calls.r.state, calls.exch, auth_scheme,
                                      auth_credential, calls.t, o, calls.issued)
         IN  /\ again.creds = calls.r.creds
             /\ again.state = calls.before
             /\ again.refreshCalls = 0
             /\ again.requested = {}

C2_Witness == CachedValid /\ calls.r.creds # {} /\ rt = "tool"

(* C3: when the cached token is expired, has a refresh token and the refresh
   call succeeds, get_credentials returns credentials with another access
   token and with the original refresh token unless the endpoint issued a
   new one, the session state holds them when it returns, and no credential
   is requested. *)
C3_RefreshSubstitution ==
  RefreshWon =>
    /\ Cardinality(calls.r.creds) = 1
    /\ \A c \in calls.r.creds :
         /\ "token" \in DOMAIN c
         /\ "token" \in DOMAIN Parsed => c["token"] # Parsed["token"]
         /\ calls.outcome = "ok" => c["refresh_token"] = Parsed["refresh_token"]
         /\ calls.outcome = "ok_new_refresh_token" =>
              c["refresh_token"] = RefreshToken(calls.issued + 1)
         /\ Valid(c, calls.t)
         /\ \E saved \in MapGet(calls.r.state, TOKEN_CACHE_KEY) :
              /\ saved["token"] = c["token"]
              /\ saved["refresh_token"] = c["refresh_token"]
              /\ saved["expiry"] = c["expiry"]
    /\ calls.r.refreshCalls = 1
    /\ calls.r.requested = {}

C3_Witness ==
  /\ RefreshWon
  /\ calls.outcome = "ok"
  /\ "token" \in DOMAIN Parsed
  /\ calls.r.writes = 1

(* C4: when the refresh call for an expired, refreshable cached token fails,
   get_credentials returns what it returns without a cached credential: the
   credentials made from the exchanged credential when the runtime holds
   one, and otherwise None with the credential requested. *)
C4_RefreshFailureAbsorbed ==
  RefreshLost =>
    /\ calls.r.refreshCalls = 1
    /\ calls.r.creds = NoCredential.creds
    /\ calls.r.requested = NoCredential.requested
    /\ calls.exch = {} => calls.r.creds = {} /\ calls.r.requested # {}
    /\ calls.exch # {} => calls.r.creds # {} /\ calls.r.requested = {}

C4_Witness == RefreshLost /\ calls.r.requested # {}

(* C5: when the cached value does not parse, get_credentials returns what it
   returns without a cached credential and leaves the session state it
   leaves then; when the runtime holds no exchanged credential it requests
   the credential with the configured AuthConfig and the cache key is gone
   from the session state. *)
C5_CorruptionRecovery ==
  ParseFailed =>
    /\ calls.r.creds = NoCredential.creds
    /\ calls.r.requested = NoCredential.requested
    /\ calls.r.state = NoCredential.state
    /\ calls.r.refreshCalls = 0
    /\ calls.exch = {} =>
         /\ calls.r.creds = {}
         /\ calls.r.requested = {CanonicalAuthConfig}
         /\ TOKEN_CACHE_KEY \notin DOMAIN calls.r.state
         /\ TOKEN_CACHE_KEY \notin DOMAIN state

C5_Witness == ParseFailed /\ calls.exch = {} /\ ret = PendingReturn

(* C6: after an empty or whitespace-only line at the consent prompt the turn
   has returned, no resumption message was submitted, the runtime holds no
   exchanged credential and the session state is as it was when the prompt
   was shown. *)
C6_Cancellation ==
  \A l \in log.line :
    Blank(l) =>
      /\ pc = "returned"
      /\ log.resumed = 0
      /\ Len(resumption) = 1
      /\ exchanged = {}
      /\ state = log.stateAtPrompt
      /\ log.writes = log.writesAtPrompt

C6_Witness ==
  /\ pc = "returned"
  /\ log.line = { <<" ">> }
  /\ TOKEN_CACHE_KEY \in DOMAIN state

(* C7: when get_credentials has no usable cached credential and the runtime
   holds an exchanged credential, it returns credentials made of that
   credential's access and refresh token, the token endpoint, the client id
   and secret and the scopes, saves them and requests nothing; it requests
   the credential only when the runtime holds no exchanged credential. *)
C7_ConsentContinuation ==
  Called =>
    LET usable == RefreshStep(LoadCached(calls.before, calls.t), calls.t,
                              calls.outcome, calls.issued).creds
    IN  /\ (usable = {} /\ calls.exch # {}) =>
             /\ Cardinality(calls.r.creds) = 1
             /\ \A c \in calls.r.creds, e \in calls.exch :
                  /\ MapGet(c, "token") = MapGet(e, "access_token")
                  /\ MapGet(c, "refresh_token") = MapGet(e, "refresh_token")
                  /\ c["token_uri"] = "https://oauth2.googleapis.com/token"
                  /\ c["client_id"] = "client-id"
                  /\ c["client_secret"] = "client-secret"
                  /\ c["scopes"] = SCOPES
                  /\ "expiry" \notin DOMAIN c
                  /\ MapGet(calls.r.state, TOKEN_CACHE_KEY) = {c}
             /\ calls.r.requested = {}
        /\ calls.r.requested # {} => (calls.exch = {} /\ usable = {})

C7_Witness ==
  /\ Called
  /\ calls.exch # {}
  /\ calls.r.writes = 1
  /\ calls.r.refreshCalls = 0
  /\ \E c \in calls.r.creds : "refresh_token" \in DOMAIN c

(* C8: every AuthConfig given to request_credential is the configured one:
   the same scheme, endpoints, scopes and client identity; and the
   module-level auth_scheme and auth_credential are never changed. *)
C8_SingleDescriptor ==
  /\ descriptors \subseteq {CanonicalAuthConfig}
  /\ auth_scheme = CanonicalAuthConfig.auth_scheme
  /\ auth_credential = CanonicalAuthConfig.raw_auth_credential

C8_Witness ==
  /\ log.signals >= 2
  /\ RefreshLost
  /\ descriptors = {CanonicalAuthConfig}

(* C9: a tool returns {status: pending, message: Awaiting user
   authentication.} exactly when its get_credentials call requested the
   credential, and then it has made no Chat API request. *)
C9_PendingReturn ==
  (Called /\ ret # EmptyMap) =>
    /\ (calls.r.requested # {}) <=>
         (ret = [status |-> "pending", message |-> "Awaiting user authentication."])
    /\ calls.r.requested # {} => frame.requests = 0

C9_Witness ==
  /\ ret = [status |-> "pending", message |-> "Awaiting user authentication."]
  /\ call.tool = "list_space_messages"
  /\ calls.r.requested # {}

(* C10: list_space_messages never holds and never returns more than 500
   entries, and the entries are the source's messages in the order the
   source returned them. *)
C10_PaginationCap ==
  /\ Len(frame.items) <= 500
  /\ "messages" \in DOMAIN ret =>
       /\ Len(ret.messages) <= 500
       /\ \A i \in 1..Len(ret.messages) :
            /\ ret.messages[i]["text"] = i
            /\ ret.messages[i]["createTime"] = 0 - i

C10_Witness ==
  /\ "messages" \in DOMAIN ret
  /\ Len(ret.messages) = 500
  /\ frame.page_token # {}

(* an event that carries a credential-request call whose id is among the
   event's long-running tool ids *)
Matching(event) ==
  /\ event.content
  /\ \E i \in 1..Len(event.parts) : \E fc \in event.parts[i].function_call :
        /\ fc.name = "adk_request_credential"
        /\ fc.id \in event.long_running_tool_ids

(* C11: a pass of the first loop over an event that carries a
   credential-request call whose id is among the event's long-running tool
   ids leaves the loop with that call recorded, discards the stream (its
   generator never runs again) and shows the prompt, or ends in the error
   get_auth_config raises; a pass over any other event, also one with a
   credential-request call that is not long-running or a long-running call
   of another name, stays in the loop; after the loop is left nothing of
   that stream is consumed or printed. *)
C11_AwaitingConsentEntry ==
  [][ /\ (pc = "running" /\ events # <<>> /\ Matching(Head(events))) =>
           /\ pc' \in {"awaiting", "crashed"}
           /\ events' = <<>>
           /\ rt' = "abandoned"
           /\ auth_request_function_call' # {}
           /\ \A fc \in auth_request_function_call' :
                /\ fc.name = "adk_request_credential"
                /\ fc.id \in Head(events).long_running_tool_ids
           /\ pc' = "awaiting" <=>
                \A fc \in auth_request_function_call' :
                  \E a \in fc.args :
                    /\ "authConfig" \in DOMAIN a
                    /\ a.authConfig.type \in {"dict", "AuthConfig"}
                    /\ "auth_scheme" \in DOMAIN a.authConfig.fields
      /\ (pc = "running" /\ events # <<>> /\ ~Matching(Head(events))) =>
           /\ pc' = "running"
           /\ auth_request_function_call' = {}
      /\ pc \in {"awaiting", "crashed"} =>
           /\ events = <<>>
           /\ rt = "abandoned"
           /\ pc' \in {"awaiting", "crashed"} => (events' = <<>> /\ text' = text)
    ]_vars

C11_Witness ==
  /\ pc = "awaiting"
  /\ log.strays
  /\ log.prompts = 1
  /\ rt = "abandoned"

(* C12: a resumption message is a function response with the id and the
   name of the credential-request call the first loop stopped at, which is
   the request the runtime made for the suspended tool call; its
   exchanged_auth_credential carries the line typed at the prompt, stripped,
   as auth_response_uri and http://localhost:8000/callback as redirect_uri;
   it is submitted with the session id and the user id of the first message
   of the turn. *)
C12_ResumptionAddress ==
  /\ Len(resumption) <= 2
  /\ Len(resumption) = 2 =>
       LET m == resumption[2]
           fr == m.new_message.function_response
           given == fr.response["exchanged_auth_credential"]
       IN  /\ m.session_id = resumption[1].session_id
           /\ m.user_id = resumption[1].user_id
           /\ m.new_message.role = "user"
           /\ auth_request_function_call # {}
           /\ \A fc \in auth_request_function_call :
                fr.id = fc.id /\ fr.name = fc.name
           /\ fr.name = "adk_request_credential"
           /\ fr.id \in DOMAIN suspended
           /\ log.line # {}
           /\ \A l \in log.line : given["auth_response_uri"] = Strip(l)
           /\ given["auth_response_uri"] # <<>>
           /\ given["redirect_uri"] = "http://localhost:8000/callback"

C12_Witness ==
  /\ Len(resumption) = 2
  /\ log.line = { <<" ", "ok-url", " ">> }
  /\ resumption[2].new_message.function_response.id \in DOMAIN suspended
  /\ pc = "resumed"

(* the text an event carries, in whichever part *)
AllTexts(event) ==
  IF event.content
  THEN UNION { event.parts[i].text : i \in 1..Len(event.parts) }
  ELSE {}

(* C13: every pass of the first or of the second loop prints all the text
   the event it consumes carries, in whichever part the text sits. *)
C13_TextEmitted ==
  [][ (pc \in {"running", "resumed"} /\ events # <<>>) =>
        text' = AllTexts(Head(events)) ]_vars

(* C14, as the claim states it: when a turn has returned, every credential
   request the tools made in it has been handled by the driver, with a
   prompt, and the second loop has passed over none. *)
C14_SignalsConsumedOnce ==
  pc = "returned" => (log.unhandled = 0 /\ log.signals = log.prompts)

(* C14, amended: a credential request made in the first stream is consumed
   by the driver at once and handled exactly once, by the prompt or by the
   error of get_auth_config, and a turn that returns from the first loop has
   seen none; the second loop passes over every credential request of its
   stream without handling it, and the turn returns when that stream ends. *)
C14_SignalsFirstStream ==
  /\ log.prompts <= 1
  /\ pc = "running" =>
       /\ auth_request_function_call = {}
       /\ log.prompts = 0
       /\ log.unhandled = 0
       /\ log.signals = IF events # <<>> /\ Matching(Head(events)) THEN 1 ELSE 0
  /\ pc = "awaiting" =>
       log.signals = 1 /\ log.prompts = 1 /\ auth_request_function_call # {}
  /\ pc = "crashed" =>
       log.signals = 1 /\ log.prompts = 0 /\ auth_request_function_call # {}
  /\ (pc = "returned" /\ log.line = {}) =>
       log.signals = 0 /\ log.prompts = 0 /\ auth_request_function_call = {}
  /\ (pc = "returned" /\ log.line # {} /\ log.resumed = 0) =>
       log.signals = 1 /\ log.prompts = 1 /\ log.unhandled = 0
  /\ pc = "resumed" =>
       /\ log.prompts = 1
       /\ log.unhandled =
            log.signals - 1 - (IF events # <<>> /\ Matching(Head(events)) THEN 1 ELSE 0)
  /\ (pc = "returned" /\ log.resumed = 1) =>
       log.prompts = 1 /\ log.unhandled = log.signals - 1

C14_Witness ==
  /\ pc = "returned"
  /\ log.resumed = 1
  /\ log.unhandled = 1
  /\ log.prompts = 1

(* the arguments of a credential-request call are missing, hold no
   authConfig, or hold one that is neither a mapping with the required
   auth_scheme nor an AuthConfig *)
Malformed(fc) ==
  \/ fc.args = {}
  \/ \A a \in fc.args : "authConfig" \notin DOMAIN a
  \/ \E a \in fc.args :
       /\ "authConfig" \in DOMAIN a
       /\ a.authConfig.type # "AuthConfig"
       /\ ~(a.authConfig.type = "dict" /\ "auth_scheme" \in DOMAIN a.authConfig.fields)

(* C15: get_auth_config raises exactly for the malformed arguments of the
   credential-request call the first loop stopped at; the program then ends
   in that error with no prompt shown, no resumption message submitted and
   the session state as the requesting tool call left it. *)
C15_MalformedAuthPayload ==
  \A fc \in auth_request_function_call :
    /\ Malformed(fc) <=> get_auth_config(fc).raised
    /\ Malformed(fc) =>
         /\ pc = "crashed"
         /\ log.prompts = 0
         /\ log.resumed = 0
         /\ Len(resumption) = 1
         /\ log.line = {}
         /\ Called
         /\ state = calls.r.state
    /\ ~Malformed(fc) => pc # "crashed"

C15_Witness ==
  /\ pc = "crashed"
  /\ \E fc \in auth_request_function_call : \E a \in fc.args :
        /\ "authConfig" \in DOMAIN a
        /\ a.authConfig.type = "dict"
        /\ DOMAIN a.authConfig.fields = {"raw_auth_credential"}

(* C16: in a turn the prompt is shown at most once and at most one
   resumption message is submitted, also when the second stream carries a
   further credential request; and a turn whose streams end and whose prompt
   is answered returns, or ends in an error. *)
C16_NoRetryLoop ==
  /\ [](log.prompts <= 1 /\ log.resumed <= 1 /\ Len(resumption) <= 2)
  /\ (pc \in {"running", "awaiting", "resumed"}) ~> (pc \in {"returned", "crashed"})

C16_Witness ==
  /\ pc = "returned"
  /\ log.line = { <<"bad-url">> }
  /\ log.signals >= 2
  /\ log.prompts = 1
  /\ log.resumed = 1


(* C17: after a get_credentials call whose refresh call failed, the session
   state no longer holds the cached mapping the refresh was made for: the
   cache key is absent, or holds the mapping of credentials made from the
   exchanged credential in this call; and whenever get_credentials has
   requested the credential and returned None, the cache key is absent. *)
C17_DiscardOnFailedRefresh ==
  /\ RefreshLost =>
       /\ MapGet(calls.r.state, TOKEN_CACHE_KEY) # CachedInfo
       /\ \/ TOKEN_CACHE_KEY \notin DOMAIN calls.r.state
          \/ /\ calls.exch # {}
             /\ MapGet(calls.r.state, TOKEN_CACHE_KEY)
                  = { to_json(c) : c \in calls.r.creds }
  /\ (Called /\ calls.r.creds = {} /\ calls.r.requested # {}) =>
       TOKEN_CACHE_KEY \notin DOMAIN calls.r.state

(* the cached mapping has no refresh token, and is not a token good at the
   time of the call *)
StaleUnrefreshable ==
  /\ Called
  /\ Truthy(CachedInfo)
  /\ "refresh_token" \notin DOMAIN Info
  /\ ~("token" \in DOMAIN Info /\ "expiry" \in DOMAIN Info
                                /\ ~Expired(Info, calls.t))

(* the credentials made from the exchanged credential of the last call *)
Minted ==
  { Credentials(MapGet(e, "access_token"), MapGet(e, "refresh_token"),
                auth_scheme.tokenUrl, auth_credential.client_id,
                auth_credential.client_secret, SCOPES) : e \in calls.exch }

(* C18: for a cached mapping without a refresh token that is not a good
   token, get_credentials makes no refresh call and does what it does without
   a cached credential: it returns the credentials made from the exchanged
   credential when the runtime holds one, and otherwise requests the
   credential and returns None; what it returns is made in this call and
   not read from the cached mapping, which is popped and only written anew
   with the credentials made. *)
C18_NoSilentRenewal ==
  StaleUnrefreshable =>
    /\ calls.r.refreshCalls = 0
    /\ calls.r.creds = NoCredential.creds
    /\ calls.r.requested = NoCredential.requested
    /\ calls.r.creds = Minted
    /\ calls.exch = {} => calls.r.creds = {} /\ calls.r.requested # {}
    /\ calls.exch # {} => calls.r.creds # {} /\ calls.r.requested = {}
    /\ TOKEN_CACHE_KEY \in DOMAIN calls.r.state => calls.r.writes = 1

C18_Witness ==
  /\ StaleUnrefreshable
  /\ calls.exch = {}
  /\ calls.r.requested = {CanonicalAuthConfig}
  /\ pc = "awaiting"

(* how many items a tool has retrieved after a step: in its loop, or
   returned *)
RetrievedAfter ==
  IF rt' = "tool" THEN Len(frame'.items)
  ELSE IF "messages" \in DOMAIN ret' THEN Len(ret'.messages) ELSE 0

(* a step in which the running tool issues a page request *)
PageRequest == rt = "tool" /\ frame'.requests = frame.requests + 1

(* C19: list_space_messages issues a page request only with fewer than 500
   messages retrieved and, after the first, only when the response before
   carried a next-page token; the request asks for at most 500 minus the
   number retrieved; after a response it goes on exactly when the response
   carried a token and fewer than 500 messages are retrieved, so it returns
   at the cap even when the response carried a token.  search_all_chat_spaces
   issues a request after the first only on a token and goes on after a
   response exactly when it carried one.  In a source with finitely many
   pages a running tool always comes to return. *)
C19_PaginationTermination ==
  /\ [][ /\ (PageRequest /\ frame.tool = "list_space_messages") =>
              /\ Len(frame.items) < 500
              /\ frame.requests > 0 => frame.page_token # {}
              /\ frame'.page_size <= 500 - Len(frame.items)
              /\ ret' # ErrorReturn =>
                   /\ rt' = "tool" <=>
                        (frame'.page_token # {} /\ RetrievedAfter < 500)
                   /\ RetrievedAfter >= 500 => rt' # "tool"
         /\ (PageRequest /\ frame.tool = "search_all_chat_spaces") =>
              /\ frame.requests > 0 => frame.page_token # {}
              /\ ret' # ErrorReturn =>
                   (rt' = "tool" <=> frame'.page_token # {})
         /\ (rt = "tool" /\ rt' = "tool") => PageRequest
       ]_vars
  /\ (rt = "tool") ~> (rt # "tool")

C19_Witness ==
  /\ frame.tool = "none"
  /\ frame.requests = 2
  /\ frame.page_size = 250
  /\ "messages" \in DOMAIN ret
  /\ Len(ret.messages) = 500

(* the last call made in a session state that holds another key as well *)
WithOtherKey ==
  get_credentials(MapSet(calls.before, "app:other", "value"), calls.exch,
                  auth_scheme, auth_credential, calls.t, calls.outcome,
                  calls.issued)

(* get_credentials leaves every key but the cache key as it was *)
OnlyCacheKey ==
  Called =>
    /\ MapPop(calls.r.state, TOKEN_CACHE_KEY) = MapPop(calls.before, TOKEN_CACHE_KEY)
    /\ MapGet(WithOtherKey.state, "app:other") = {"value"}
    /\ MapPop(WithOtherKey.state, "app:other") = calls.r.state
    /\ WithOtherKey.creds = calls.r.creds

(* the session state changes only in a step in which a tool calls
   get_credentials, to the state that call leaves *)
OnlyToolWrites ==
  state' # state =>
    /\ Pulled /\ rt = "exec" /\ pc' = pc
    /\ "r" \in DOMAIN calls' /\ calls'.before = state /\ state' = calls'.r.state

(* C20 as stated: whenever get_credentials returns credentials the session
   state holds exactly their to_json() mapping under google_chat_user_tokens;
   get_credentials changes no other key, and no step of handle_agent_run
   changes the session state. *)
C20_StoreConsistency ==
  /\ [](/\ (Called /\ calls.r.creds # {}) =>
             MapGet(calls.r.state, TOKEN_CACHE_KEY)
               = { to_json(c) : c \in calls.r.creds }
        /\ OnlyCacheKey)
  /\ [][OnlyToolWrites]_vars

(* C20: whenever get_credentials returns credentials, the session state
   holds under google_chat_user_tokens their to_json() mapping when the call
   made them (from a refresh or from the exchanged credential), and when the
   call loaded them the mapping they were loaded from, which is their
   to_json() mapping but for the fraction of a second of the expiry;
   get_credentials changes no other key, and no step of handle_agent_run
   changes the session state. *)
C20_StoreConsistencyToTheSecond ==
  /\ [](/\ (Called /\ calls.r.creds # {}) =>
             \A c \in calls.r.creds :
               /\ TOKEN_CACHE_KEY \in DOMAIN calls.r.state
               /\ calls.r.writes > 0 =>
                    calls.r.state[TOKEN_CACHE_KEY] = to_json(c)
               /\ calls.r.writes = 0 =>
                    /\ calls.r.state = calls.before
                    /\ c = from_authorized_user_info(
                             calls.r.state[TOKEN_CACHE_KEY], SCOPES, calls.t)
                    /\ LET saved == calls.r.state[TOKEN_CACHE_KEY]
                       IN  /\ DOMAIN saved = DOMAIN to_json(c)
                           /\ \A k \in DOMAIN saved \ {"expiry"} :
                                saved[k] = to_json(c)[k]
                           /\ saved["expiry"].seconds = c["expiry"].seconds
        /\ OnlyCacheKey)
  /\ [][OnlyToolWrites]_vars

C20_Witness ==
  /\ CachedValid
  /\ calls.r.creds # {}
  /\ calls.r.writes = 0
  /\ calls.r.state[TOKEN_CACHE_KEY]["expiry"].fraction
  /\ rt = "respond"

====
